---- MODULE Spec2Model ----
(***************************************************************************)
(* A state-machine model of driver_script.py: the DriverScript base class  *)
(* (stage registry, stage lifecycle wrapper, timing ledger and report) and *)
(* its command pretty-printer.                                             *)
(*                                                                         *)
(* Python strings are modelled as sequences of one-character strings, so   *)
(* that str.isidentifier, str.startswith, shlex.split and the quoting      *)
(* regular expression can be computed character by character.              *)
(***************************************************************************)
EXTENDS Integers, Sequences, FiniteSets, TLC

VARIABLES
    classAttrs,        \* class -> value of its own `stages` attribute (or Unset)
    wrappers,          \* the wrapped functions the stage decorator has produced
    raised,            \* the error the last registration call raised, or NoError
    declared,          \* history: the registrations that succeeded, in order
    lastReg,           \* history: the name given to the last registration call
    phase,             \* "load" (class bodies run), "init" (constructed), "run"
    current_stage,     \* self.current_stage
    durations,         \* self.durations, an insertion-ordered dict
    stage_start_time,  \* self.stage_start_time
    stages_to_run,     \* self.stages_to_run
    start_time,        \* self.start_time
    now,               \* the clock read by datetime.now()
    stack,             \* the active wrapper invocations, innermost last
    ret,               \* the wrapper invocation that has just exited
    invoked,           \* history: distinct stage names in order of first invocation
    report,            \* the last table returned by get_timing_report
    command,           \* pretty_print_command: its argument
    args,              \* pretty_print_command: the local `args`
    lines,             \* pretty_print_command: the local `lines`
    fpc,               \* pretty_print_command: position in the function
    fmtErr,            \* pretty_print_command: the error it raised, or ""
    output,            \* pretty_print_command: the returned string
    _lazy_parser,      \* the instance attribute _lazy_parser set by lazy_property
    help               \* the stage choices of the help text just generated

regVars  == <<classAttrs, wrappers, raised, declared, lastReg>>
instVars == <<current_stage, durations, stage_start_time, stages_to_run, start_time>>
runVars  == <<stack, ret, invoked, report>>
fmtVars  == <<command, args, lines, fpc, fmtErr, output>>
parserVars == <<_lazy_parser, help>>
vars == <<classAttrs, wrappers, raised, declared, lastReg, phase, current_stage, durations,
          stage_start_time, stages_to_run, start_time, now, stack, ret, invoked,
          report, command, args, lines, fpc, fmtErr, output, _lazy_parser, help>>

----------------------------------------------------------------------------
(* Bounds of the model.                                                    *)

MaxRegs == 3           \* successful registrations in the registry specification
MaxDepth == 2          \* wrapper invocations active at once (nesting)
MaxTime == 2           \* last value of the clock
MaxTokens == 3         \* most tokens of a generated command

----------------------------------------------------------------------------
(* Characters and strings.                                                 *)

Letters == {"a", "b", "c", "d", "e", "f", "g", "h", "i", "j", "k", "l", "m",
            "n", "o", "p", "q", "r", "s", "t", "u", "v", "w", "x", "y", "z",
            "A", "B", "C", "D", "E", "F", "G", "H", "I", "J", "K", "L", "M",
            "N", "O", "P", "Q", "R", "S", "T", "U", "V", "W", "X", "Y", "Z"}
Digits == {"0", "1", "2", "3", "4", "5", "6", "7", "8", "9"}

RECURSIVE Concat(_)
Concat(ss) == IF ss = <<>> THEN <<>> ELSE Head(ss) \o Concat(Tail(ss))

Contains(seq, x) == \E i \in 1..Len(seq) : seq[i] = x

RECURSIVE SeqsUpTo(_, _)
SeqsUpTo(S, n) ==
    IF n = 0 THEN {<<>>}
    ELSE LET shorter == SeqsUpTo(S, n - 1)
         IN  shorter \cup {Append(s, x) : s \in shorter, x \in S}

(* str.isidentifier, over ASCII: a letter or underscore, then letters,     *)
(* digits and underscores; the empty string is no identifier.              *)
isidentifier(s) ==
    /\ Len(s) > 0
    /\ s[1] \in Letters \cup {"_"}
    /\ \A i \in 2..Len(s) : s[i] \in Letters \cup Digits \cup {"_"}

(* str.startswith *)
startswith(s, prefix) ==
    /\ Len(s) >= Len(prefix)
    /\ SubSeq(s, 1, Len(prefix)) = prefix

----------------------------------------------------------------------------
(* The stage registry: the class variable `stages`.                        *)

Classes == {"DriverScript", "SubA", "SubB"}
Subclasses == {"SubA", "SubB"}
Unset == << <<"<no attribute>">> >>

(* Attribute lookup `self.stages` on an instance of cls: neither __init__  *)
(* nor any method sets an instance attribute `stages`, so the lookup walks *)
(* the classes of the instance, the subclass first and then DriverScript.  *)
self_stages(cls) ==
    IF classAttrs[cls] # Unset THEN classAttrs[cls] ELSE classAttrs["DriverScript"]

(* dict.fromkeys(seq) read back as a list: the distinct elements of seq in *)
(* the order of their first occurrence.                                    *)
RECURSIVE dict_fromkeys(_)
dict_fromkeys(seq) ==
    IF seq = <<>> THEN <<>>
    ELSE LET front == dict_fromkeys(SubSeq(seq, 1, Len(seq) - 1))
             last == seq[Len(seq)]
         IN  IF Contains(front, last) THEN front ELSE Append(front, last)

NoError == [type |-> "", msg |-> <<>>]
InvalidNameError(stage_name) ==
    [type |-> "ValueError",
     msg |-> Concat(<<
         <<"S","t","a","g","e"," ","n","a","m","e"," ","'">>,
         stage_name,
         <<"'"," ","m","u","s","t"," ","b","e"," ","a"," ","v","a","l","i","d"," ",
           "P","y","t","h","o","n"," ","i","d","e","n","t","i","f","i","e","r",".">> >>)]

(* A registration that appends without removing duplicates. *)
AddedStages_NoDedup(stages, stage_name) == stages \o <<stage_name>>

(* The value _add_stage assigns to __class__.stages. *)
AddedStages(stages, stage_name) == dict_fromkeys(stages \o <<stage_name>>)

(* The class _add_stage assigns to: `__class__` inside a method is the     *)
(* class whose body holds the method, DriverScript, whichever class the    *)
(* decorator is reached through.                                           *)
AddStageTarget(cls) == "DriverScript"

(* A registration that records the name before it validates it. *)
_add_stage_RegistersFirst(cls, stage_name) ==
    LET attrs == [classAttrs EXCEPT ![AddStageTarget(cls)] =
                     AddedStages(classAttrs[AddStageTarget(cls)], stage_name)]
    IN  IF ~isidentifier(stage_name)
        THEN [err |-> InvalidNameError(stage_name), attrs |-> attrs]
        ELSE [err |-> NoError, attrs |-> attrs]

(* _add_stage(stage_name), reached through class cls: the error it raises  *)
(* (NoError on success) and the class attributes it leaves.                *)
_add_stage(cls, stage_name) ==
    IF ~isidentifier(stage_name)
    THEN [err |-> InvalidNameError(stage_name), attrs |-> classAttrs]
    ELSE [err |-> NoError,
          attrs |-> [classAttrs EXCEPT ![AddStageTarget(cls)] =
                        AddedStages(classAttrs[AddStageTarget(cls)], stage_name)]]

NoReg == [valid |-> FALSE, name |-> <<>>]

DefaultSkipResult == "True"
Headings == {"Heading"}

(* @stage(stage_name, heading, skip_result) applied to a method of class   *)
(* cls: the registration, then the wrapper; an error of the registration   *)
(* leaves the decorator before any wrapper is made.                        *)
ApplyStage(cls, stage_name, heading, skip_result) ==
    LET r == _add_stage(cls, stage_name)
    IN  /\ classAttrs' = r.attrs
        /\ raised' = r.err
        /\ wrappers' = IF r.err = NoError
                       THEN wrappers \cup {[cls |-> cls, stage_name |-> stage_name,
                                            heading |-> heading,
                                            skip_result |-> skip_result]}
                       ELSE wrappers

(* A direct call of the static method _add_stage. *)
CallAddStage(cls, stage_name) ==
    LET r == _add_stage(cls, stage_name)
    IN  /\ classAttrs' = r.attrs
        /\ raised' = r.err
        /\ UNCHANGED wrappers

----------------------------------------------------------------------------
(* The instance: __init__, the timing ledger and the stage lifecycle.      *)

(* "CURRENT STAGE NOT SET", the value __init__ gives current_stage. *)
CurrentStageNotSet ==
    <<"C","U","R","R","E","N","T"," ","S","T","A","G","E"," ","N","O","T"," ","S","E","T">>

(* An insertion-ordered dict is a sequence of items with distinct keys. *)
DictKeys(d) == [i \in 1..Len(d) |-> d[i].stage]
DictHas(d, k) == \E i \in 1..Len(d) : d[i].stage = k
DictGet(d, k) == d[CHOOSE i \in 1..Len(d) : d[i].stage = k].duration
(* d[k] = v: an existing key keeps its position, a new key goes last. *)
DictSet(d, k, v) ==
    IF DictHas(d, k)
    THEN [i \in 1..Len(d) |-> IF d[i].stage = k THEN [stage |-> k, duration |-> v]
                                                ELSE d[i]]
    ELSE Append(d, [stage |-> k, duration |-> v])

(* The stage names, work results, skip results and errors the lifecycle    *)
(* specification draws from.                                               *)
StageBuild == <<"b","u","i","l","d">>
StageTest == <<"t","e","s","t">>
StageNames == {StageBuild, StageTest}
SkipResults == {DefaultSkipResult, "SKIPPED"}
WorkResults == {"r1"}
NoValue == "<no value>"
(* Error classes a work function may raise: RuntimeError derives from      *)
(* Exception; KeyboardInterrupt derives from BaseException only.           *)
ErrorTypes == {"RuntimeError", "KeyboardInterrupt"}
ExceptionSubclasses == {"RuntimeError", "ValueError"}
WorkError(t) == [type |-> t, msg |-> <<"b","o","o","m">>]

(* `except Exception as e` catches instances of Exception and subclasses. *)
CaughtByWrapper(t) == t \in ExceptionSubclasses

(* A membership test that selects every stage. *)
IsSelected_Always(stage_name) == TRUE

(* `stage_name in self.stages_to_run` *)
IsSelected(stage_name) == stage_name \in stages_to_run

(* A duration measured from the construction of the instance. *)
EndStageDuration_SinceConstruction == now - start_time

(* A ledger write keyed by the value current_stage has at construction. *)
EndStageKey_Sentinel == CurrentStageNotSet

(* The key and the value _end_stage writes into self.durations. *)
EndStageKey == current_stage
EndStageDuration == now - stage_start_time

NoWork == [kind |-> "none", value |-> NoValue, err |-> NoError]
NoRet == [valid |-> FALSE, stage_name |-> <<>>, skip_result |-> NoValue,
          selected |-> FALSE, kind |-> "none", value |-> NoValue, err |-> NoError,
          work |-> NoWork, events |-> <<>>]
NoReport == [valid |-> FALSE, rows |-> <<>>, footer |-> <<>>]

Top == stack[Len(stack)]
Pop == SubSeq(stack, 1, Len(stack) - 1)
SetTop(f) == [stack EXCEPT ![Len(stack)] = f]

(* What an exiting invocation leaves for its caller. *)
Exit(f, kind, value, err) ==
    [valid |-> TRUE, stage_name |-> f.stage_name, skip_result |-> f.skip_result,
     selected |-> f.selected, kind |-> kind, value |-> value, err |-> err,
     work |-> f.work, events |-> f.events]

(* __init__: the two readings of the clock may differ. *)
Construct ==
    /\ phase = "load"
    /\ raised = NoError
    /\ \E d \in {0, 1} :
          /\ now + d <= MaxTime
          /\ now' = now + d
          /\ stage_start_time' = now
          /\ start_time' = now + d
    /\ current_stage' = CurrentStageNotSet
    /\ durations' = <<>>
    /\ stages_to_run' = {}
    /\ phase' = "init"
    /\ UNCHANGED <<regVars, runVars, fmtVars, parserVars>>

(* The driver fills stages_to_run (from the parsed options) before it      *)
(* invokes the stages.                                                     *)
SelectStages ==
    /\ phase = "init"
    /\ \E S \in SUBSET StageNames : stages_to_run' = S
    /\ phase' = "run"
    /\ UNCHANGED <<regVars, current_stage, durations, stage_start_time, start_time,
                   now, runVars, fmtVars, parserVars>>

(* Time passes (the clock is non-decreasing). *)
Tick ==
    /\ phase # "load"
    /\ now < MaxTime
    /\ now' = now + 1
    /\ ret' = NoRet
    /\ report' = NoReport
    /\ UNCHANGED <<regVars, phase, instVars, stack, invoked, fmtVars, parserVars>>

(* wrapper(self, ...), from its call to the work function's start: *)
(* _begin_stage, then the membership test; a stage that is not selected    *)
(* runs _skip_stage and takes skip_result as its result; no other branch   *)
(* reads skip_result. begun is the reading of the clock in _begin_stage.   *)
Begin(w) ==
    LET selected == IsSelected(w.stage_name)
    IN  /\ stage_start_time' = now
        /\ current_stage' = w.stage_name
        /\ stack' = Append(stack,
              [stage_name |-> w.stage_name,
               skip_result |-> IF selected THEN NoValue ELSE w.skip_result,
               selected |-> selected,
               pc |-> IF selected THEN "work" ELSE "end",
               result |-> IF selected THEN NoValue ELSE w.skip_result,
               exc |-> NoError,
               work |-> NoWork,
               events |-> IF selected THEN <<"heading", "work">>
                                      ELSE <<"heading", "skip">>,
               begun |-> now])
        /\ invoked' = IF Contains(invoked, w.stage_name) THEN invoked
                      ELSE Append(invoked, w.stage_name)
        /\ ret' = NoRet
        /\ report' = NoReport
        /\ UNCHANGED <<regVars, phase, durations, stages_to_run, start_time, now,
                       fmtVars, parserVars>>

(* The script's run method invokes a wrapped stage. *)
CallStage ==
    /\ phase = "run"
    /\ stack = <<>>
    /\ \E w \in wrappers : Begin(w)

(* The work function of the running stage invokes a wrapped stage. *)
CallNestedStage ==
    /\ phase = "run"
    /\ stack # <<>>
    /\ Len(stack) < MaxDepth
    /\ Top.pc = "work"
    /\ \E w \in wrappers : Begin(w)

(* The work function returns a value. *)
WorkReturns ==
    /\ stack # <<>>
    /\ Top.pc = "work"
    /\ \E v \in WorkResults :
          stack' = SetTop([Top EXCEPT !.pc = "end", !.result = v,
                                      !.work = [kind |-> "return", value |-> v,
                                                err |-> NoError]])
    /\ ret' = NoRet
    /\ report' = NoReport
    /\ UNCHANGED <<regVars, phase, instVars, now, invoked, fmtVars, parserVars>>

(* The work function raises: an Exception enters the handler, any other    *)
(* error leaves the wrapper at once.                                       *)
WorkRaises ==
    /\ stack # <<>>
    /\ Top.pc = "work"
    /\ \E t \in ErrorTypes :
          LET f == [Top EXCEPT !.work = [kind |-> "raise", value |-> NoValue,
                                         err |-> WorkError(t)]]
          IN  IF CaughtByWrapper(t)
              THEN /\ stack' = SetTop([f EXCEPT !.pc = "except", !.exc = WorkError(t)])
                   /\ ret' = NoRet
              ELSE /\ stack' = Pop
                   /\ ret' = Exit(f, "raise", NoValue, WorkError(t))
    /\ report' = NoReport
    /\ UNCHANGED <<regVars, phase, instVars, now, invoked, fmtVars, parserVars>>

(* _end_stage: the ledger write and the duration log line. *)
_end_stage ==
    /\ durations' = DictSet(durations, EndStageKey, EndStageDuration)
    /\ UNCHANGED <<current_stage, stage_start_time, stages_to_run, start_time>>

(* `self._end_stage(); return result` *)
EndAndReturn ==
    /\ stack # <<>>
    /\ Top.pc = "end"
    /\ _end_stage
    /\ stack' = Pop
    /\ ret' = Exit([Top EXCEPT !.events = Append(@, "duration")],
                   "return", Top.result, NoError)
    /\ report' = NoReport
    /\ UNCHANGED <<regVars, phase, now, invoked, fmtVars, parserVars>>

(* `except Exception as e: self._end_stage(); raise e` *)
HandleAndRaise ==
    /\ stack # <<>>
    /\ Top.pc = "except"
    /\ _end_stage
    /\ stack' = Pop
    /\ ret' = Exit([Top EXCEPT !.events = Append(@, "duration")],
                   "raise", NoValue, Top.exc)
    /\ report' = NoReport
    /\ UNCHANGED <<regVars, phase, now, invoked, fmtVars, parserVars>>

(* str(timedelta) of a whole number of seconds below one day: H:MM:SS. *)
TimedeltaStr(n) == [h |-> n \div 3600, mm |-> (n \div 60) % 60, ss |-> n % 60]

(* The table get_timing_report builds: one row per ledger item in the      *)
(* ledger's order, and the footer with the time since construction.        *)
TimingReport ==
    [valid |-> TRUE,
     rows |-> [i \in 1..Len(durations) |->
                  <<durations[i].stage, TimedeltaStr(durations[i].duration)>>],
     footer |-> <<"Total", TimedeltaStr(now - start_time)>>]

get_timing_report ==
    /\ phase # "load"
    /\ stack = <<>>
    /\ report' = TimingReport
    /\ ret' = NoRet
    /\ UNCHANGED <<regVars, phase, instVars, now, stack, invoked, fmtVars, parserVars>>

(* A stage decorator applied in the body of the script class. *)
DeclareStage ==
    /\ phase = "load"
    /\ raised = NoError
    /\ \E n \in StageNames \cup {<<"a","-","b">>}, h \in Headings, k \in SkipResults :
          ApplyStage("SubA", n, h, k)
    /\ UNCHANGED <<declared, lastReg, phase, instVars, now, runVars, fmtVars, parserVars>>

----------------------------------------------------------------------------
(* The command formatter: pretty_print_command.                            *)

Whitespace == {" ", "\t", "\r", "\n", "\f"}

(* shlex.split(command): POSIX word splitting on whitespace, with single   *)
(* quotes, double quotes and backslash escapes; an open quote or a         *)
(* trailing backslash is a ValueError.                                     *)
RECURSIVE ShlexScan(_, _, _, _, _, _)
ShlexScan(s, i, st, tok, has, acc) ==
    IF i > Len(s)
    THEN IF st \in {"sq", "dq"}
         THEN [ok |-> FALSE, err |-> "No closing quotation", tokens |-> <<>>]
         ELSE IF st \in {"esc", "dqesc"}
         THEN [ok |-> FALSE, err |-> "No escaped character", tokens |-> <<>>]
         ELSE [ok |-> TRUE, err |-> "",
               tokens |-> IF has THEN Append(acc, tok) ELSE acc]
    ELSE LET c == s[i]
         IN  CASE st = "a" ->
                    IF c \in Whitespace
                    THEN ShlexScan(s, i + 1, "a", <<>>, FALSE,
                                   IF has THEN Append(acc, tok) ELSE acc)
                    ELSE IF c = "'" THEN ShlexScan(s, i + 1, "sq", tok, TRUE, acc)
                    ELSE IF c = "\"" THEN ShlexScan(s, i + 1, "dq", tok, TRUE, acc)
                    ELSE IF c = "\\" THEN ShlexScan(s, i + 1, "esc", tok, TRUE, acc)
                    ELSE ShlexScan(s, i + 1, "a", Append(tok, c), TRUE, acc)
               [] st = "sq" ->
                    IF c = "'" THEN ShlexScan(s, i + 1, "a", tok, has, acc)
                    ELSE ShlexScan(s, i + 1, "sq", Append(tok, c), has, acc)
               [] st = "dq" ->
                    IF c = "\"" THEN ShlexScan(s, i + 1, "a", tok, has, acc)
                    ELSE IF c = "\\" THEN ShlexScan(s, i + 1, "dqesc", tok, has, acc)
                    ELSE ShlexScan(s, i + 1, "dq", Append(tok, c), has, acc)
               [] st = "esc" ->
                    ShlexScan(s, i + 1, "a", Append(tok, c), has, acc)
               [] st = "dqesc" ->
                    IF c \in {"\"", "\\"}
                    THEN ShlexScan(s, i + 1, "dq", Append(tok, c), has, acc)
                    ELSE ShlexScan(s, i + 1, "dq", tok \o <<"\\", c>>, has, acc)

shlex_split(s) == ShlexScan(s, 1, "a", <<>>, FALSE, <<>>)

(* A test that takes every flag, short ones too, for a long flag. *)
_current_arg_is_long_flag_AnyFlag(a) == Len(a) > 0 /\ startswith(a[1], <<"-">>)

(* len(args) > 0 and args[0].startswith("--") *)
_current_arg_is_long_flag(a) == Len(a) > 0 /\ startswith(a[1], <<"-", "-">>)

(* A lookahead that takes only long flags for flags. *)
_next_arg_is_flag_LongOnly(a) == Len(a) > 1 /\ startswith(a[2], <<"-", "-">>)

(* len(args) > 1 and args[1].startswith("-") *)
_next_arg_is_flag(a) == Len(a) > 1 /\ startswith(a[2], <<"-">>)

(* The first index at or after p that holds a newline, Len(s) + 1 if none. *)
RECURSIVE NextNewline(_, _)
NextNewline(s, p) ==
    IF p > Len(s) THEN Len(s) + 1
    ELSE IF s[p] = "\n" THEN p
    ELSE NextNewline(s, p + 1)

(* re.sub of the pattern "any run, one whitespace character, any run" by  *)
(* the match in single quotes, from index p on. A run holds no newline, so *)
(* a match that starts at p runs through the first newline at              *)
(* or after p to the end of the following line; on the last line a match   *)
(* needs a whitespace character and takes the rest of the string; the scan *)
(* goes on after each match, and what no match covers is copied.           *)
RECURSIVE RegexSubQuote(_, _)
RegexSubQuote(s, p) ==
    IF p > Len(s) THEN <<>>
    ELSE LET nl == NextNewline(s, p)
         IN  IF nl <= Len(s)
             THEN LET end == NextNewline(s, nl + 1)
                  IN  <<"'">> \o SubSeq(s, p, end - 1) \o <<"'">>
                          \o RegexSubQuote(s, end)
             ELSE IF \E i \in p..Len(s) : s[i] \in Whitespace
             THEN <<"'">> \o SubSeq(s, p, Len(s)) \o <<"'">>
             ELSE SubSeq(s, p, Len(s))

(* A quoting that leaves every argument as it is. *)
_quote_arg_Unchanged(arg) == arg

(* _quote_arg: the substitution if the pattern is found anywhere. *)
_quote_arg(arg) ==
    IF \E i \in 1..Len(arg) : arg[i] \in Whitespace
    THEN RegexSubQuote(arg, 1)
    ELSE arg

DefaultIndent == 4
Indents == {DefaultIndent, 0}

Spaces(n) == [i \in 1..n |-> " "]

(* sep.join(lines) *)
RECURSIVE str_join(_, _)
str_join(sep, ls) ==
    IF ls = <<>> THEN <<>>
    ELSE IF Len(ls) = 1 THEN ls[1]
    ELSE ls[1] \o sep \o str_join(sep, Tail(ls))

(* (" \\\n" + " "*indent) *)
LineSeparator(indent) == <<" ", "\\", "\n">> \o Spaces(indent)

(* The tokens the generated commands are made of. *)
TokTool == <<"t","o","o","l">>
TokName == <<"-","-","n","a","m","e">>
TokValue == <<"v","a","l","u","e">>
TokVerbose == <<"-","-","v","e","r","b","o","s","e">>
TokShort == <<"-","v">>
TokDashes == <<"-","-">>
TokSpaced == <<"a"," ","b">>
TokEmpty == <<>>
TokLines == <<"x","\n","y","\n","z">>
TokQuote == <<"i","t","'","s">>
Tokens == {TokTool, TokName, TokValue, TokVerbose, TokShort, TokDashes,
           TokSpaced, TokEmpty, TokLines, TokQuote}

(* A token as a caller writes it in a command string: as it is, in double  *)
(* quotes if it holds a single quote, in single quotes if it is empty or   *)
(* holds whitespace.                                                       *)
Written(tok) ==
    IF Contains(tok, "'") THEN <<"\"">> \o tok \o <<"\"">>
    ELSE IF tok = <<>> \/ \E i \in 1..Len(tok) : tok[i] \in Whitespace
    THEN <<"'">> \o tok \o <<"'">>
    ELSE tok

CommandOf(toks) == str_join(<<" ">>, [i \in 1..Len(toks) |-> Written(toks[i])])

CmdExample == CommandOf(<<TokTool, TokName, TokValue, TokVerbose>>)
CmdUnquotedSpace ==
    <<"t","o","o","l"," ","-","-","p","a","t","h"," ","/","a"," ","b","/","c">>
CmdQuotedSpace ==
    <<"t","o","o","l"," ","-","-","p","a","t","h"," ","'","/","a"," ","b","/","c","'">>
CmdOpenQuote == <<"t","o","o","l"," ","'","x">>
CmdEmpty == <<>>

Commands ==
    {CommandOf(toks) : toks \in SeqsUpTo(Tokens, MaxTokens) \ {<<>>}}
        \cup {CmdExample, CmdUnquotedSpace, CmdQuotedSpace, CmdOpenQuote, CmdEmpty}

NoCommand == [text |-> <<>>, indent |-> 0]

(* pretty_print_command up to the loop: the split and the program name.    *)
(* A command shlex cannot split raises ValueError; one with no token       *)
(* raises IndexError at args.pop(0).                                       *)
FmtBegin ==
    /\ fpc = "idle"
    /\ \E text \in Commands, indent \in Indents :
          LET r == shlex_split(text)
          IN  /\ command' = [text |-> text, indent |-> indent]
              /\ IF ~r.ok
                 THEN /\ fpc' = "raised"
                      /\ fmtErr' = "ValueError"
                      /\ args' = <<>>
                      /\ lines' = <<>>
                 ELSE IF Len(r.tokens) = 0
                 THEN /\ fpc' = "raised"
                      /\ fmtErr' = "IndexError"
                      /\ args' = <<>>
                      /\ lines' = <<>>
                 ELSE /\ fpc' = "loop"
                      /\ fmtErr' = ""
                      /\ args' = Tail(r.tokens)
                      /\ lines' = <<Head(r.tokens)>>
    /\ output' = <<>>
    /\ UNCHANGED <<regVars, phase, instVars, now, runVars, parserVars>>

(* An iteration that pops the value of a long flag and loses it. *)
FmtStep_DropsValue ==
    /\ fpc = "loop"
    /\ args # <<>>
    /\ IF \/ ~_current_arg_is_long_flag(args)
          \/ _next_arg_is_flag(args)
          \/ Len(args) = 1
       THEN /\ lines' = Append(lines, args[1])
            /\ args' = Tail(args)
       ELSE /\ lines' = Append(lines, args[1])
            /\ args' = Tail(Tail(args))
    /\ UNCHANGED <<regVars, phase, instVars, now, runVars, parserVars, command, fpc, fmtErr, output>>

(* One iteration of `while args`. *)
FmtStep ==
    /\ fpc = "loop"
    /\ args # <<>>
    /\ IF \/ ~_current_arg_is_long_flag(args)
          \/ _next_arg_is_flag(args)
          \/ Len(args) = 1
       THEN /\ lines' = Append(lines, args[1])
            /\ args' = Tail(args)
       ELSE /\ lines' = Append(lines, args[1] \o <<" ">> \o _quote_arg(args[2]))
            /\ args' = Tail(Tail(args))
    /\ UNCHANGED <<regVars, phase, instVars, now, runVars, parserVars, command, fpc, fmtErr, output>>

(* The loop ends: the lines are joined and returned. *)
FmtReturn ==
    /\ fpc = "loop"
    /\ args = <<>>
    /\ output' = str_join(LineSeparator(command.indent), lines)
    /\ fpc' = "done"
    /\ UNCHANGED <<regVars, phase, instVars, now, runVars, parserVars, command, args, lines, fmtErr>>

NextFmt ==
    \/ FmtBegin
    \/ FmtStep
    \/ FmtReturn

----------------------------------------------------------------------------
(* The argument parser: the lazy property `parser` of the instance.        *)

NoParser == [valid |-> FALSE, choices |-> <<>>]
NoHelp == [valid |-> FALSE, choices |-> <<>>]

(* parser(self): a new ArgumentParser whose --stage option has the list    *)
(* self.stages as its choices; _add_stage never changes that list, it      *)
(* binds the class attribute to a new one.                                 *)
parser == [valid |-> TRUE, choices |-> self_stages("SubA")]

(* A property that computes its value at every access. *)
_lazy_property_Recomputed == parser

(* _lazy_property(self): the value of self.parser, computed at the first   *)
(* access and read from the attribute _lazy_parser from then on.           *)
_lazy_property == IF ~_lazy_parser.valid THEN parser ELSE _lazy_parser

(* The script reads self.parser (to add options, to parse the arguments). *)
AccessParser ==
    /\ phase # "load"
    /\ _lazy_parser' = _lazy_property
    /\ help' = NoHelp
    /\ UNCHANGED <<regVars, phase, instVars, now, runVars, fmtVars>>

(* self.parser generates the help text (or validates --stage values): the *)
(* allowed values are the choices of the parser.                          *)
PrintHelp ==
    /\ phase # "load"
    /\ _lazy_parser' = _lazy_property
    /\ help' = [valid |-> TRUE, choices |-> _lazy_property.choices]
    /\ UNCHANGED <<regVars, phase, instVars, now, runVars, fmtVars>>

StageDeploy == <<"d","e","p","l","o","y">>

(* A stage registered once the instance exists: a class body that runs    *)
(* later, or a call of _add_stage.                                        *)
RegisterLate ==
    /\ phase # "load"
    /\ Len(self_stages("SubA")) < MaxRegs
    /\ \E n \in StageNames \cup {StageDeploy} : CallAddStage("SubA", n)
    /\ help' = NoHelp
    /\ UNCHANGED <<declared, lastReg, phase, instVars, now, runVars, fmtVars,
                   _lazy_parser>>

----------------------------------------------------------------------------
(* The lifecycle specification: the class body declares stages, one        *)
(* instance is constructed, the driver selects stages and invokes them.    *)

IdleFormatter ==
    /\ command = NoCommand
    /\ args = <<>>
    /\ lines = <<>>
    /\ fpc = "idle"
    /\ fmtErr = ""
    /\ output = <<>>

Init ==
    /\ classAttrs = [c \in Classes |-> IF c = "DriverScript" THEN <<>> ELSE Unset]
    /\ wrappers = {}
    /\ raised = NoError
    /\ declared = <<>>
    /\ lastReg = NoReg
    /\ phase = "load"
    /\ current_stage = <<>>
    /\ durations = <<>>
    /\ stage_start_time = 0
    /\ stages_to_run = {}
    /\ start_time = 0
    /\ now = 0
    /\ stack = <<>>
    /\ ret = NoRet
    /\ invoked = <<>>
    /\ report = NoReport
    /\ IdleFormatter
    /\ _lazy_parser = NoParser
    /\ help = NoHelp

Next ==
    \/ DeclareStage
    \/ Construct
    \/ SelectStages
    \/ Tick
    \/ CallStage
    \/ CallNestedStage
    \/ WorkReturns
    \/ WorkRaises
    \/ EndAndReturn
    \/ HandleAndRaise
    \/ get_timing_report

Spec == Init /\ [][Next]_vars

(* Stages invoked one after another only: no work function invokes a stage. *)
NextSeq ==
    \/ DeclareStage
    \/ Construct
    \/ SelectStages
    \/ Tick
    \/ CallStage
    \/ WorkReturns
    \/ WorkRaises
    \/ EndAndReturn
    \/ HandleAndRaise
    \/ get_timing_report

SpecSeq == Init /\ [][NextSeq]_vars

----------------------------------------------------------------------------
(* The registry specification: registrations by two subclasses of          *)
(* DriverScript and by direct calls, with valid and invalid names.         *)

NameInputs ==
    { <<>>, <<"a">>, <<"b","1">>, <<"_","c">>,
      <<"1","a">>, <<"a","-","b">>, <<"a"," ","b">> }

Registered(cls, n, via) ==
    /\ lastReg' = [valid |-> TRUE, name |-> n]
    /\ declared' = IF raised' = NoError
                   THEN Append(declared, [name |-> n, cls |-> cls, via |-> via])
                   ELSE declared

(* @stage(n, heading) on a method in the body of a subclass. *)
RegisterByDecorator ==
    /\ phase = "load"
    /\ Len(declared) < MaxRegs
    /\ \E cls \in Subclasses, n \in NameInputs, h \in Headings :
          /\ ApplyStage(cls, n, h, DefaultSkipResult)
          /\ Registered(cls, n, "stage")
    /\ UNCHANGED <<phase, instVars, now, runVars, fmtVars, parserVars>>

(* DriverScript._add_stage(n) called directly. *)
RegisterDirectly ==
    /\ phase = "load"
    /\ Len(declared) < MaxRegs
    /\ \E n \in NameInputs :
          /\ CallAddStage("DriverScript", n)
          /\ Registered("DriverScript", n, "_add_stage")
    /\ UNCHANGED <<phase, instVars, now, runVars, fmtVars, parserVars>>

NextReg ==
    \/ RegisterByDecorator
    \/ RegisterDirectly

SpecReg == Init /\ [][NextReg]_vars

(* The parser specification: stages are registered before and after the   *)
(* instance is constructed, and its parser is read at any time.            *)
NextParser ==
    \/ DeclareStage
    \/ Construct
    \/ RegisterLate
    \/ AccessParser
    \/ PrintHelp

SpecParser == Init /\ [][NextParser]_vars

(* The formatter specification: one call of pretty_print_command. *)
SpecFmt == Init /\ [][NextFmt]_vars

(* A call that has begun runs on: an iteration or the return that can be *)
(* taken is taken.                                                       *)
SpecFmtFair == SpecFmt /\ WF_vars(FmtStep) /\ WF_vars(FmtReturn)

----------------------------------------------------------------------------
(* Claims about the stage lifecycle.                                       *)

Count(seq, x) == Cardinality({i \in 1..Len(seq) : seq[i] = x})

RECURSIVE SumDurations(_)
SumDurations(d) ==
    IF d = <<>> THEN 0 ELSE Head(d).duration + SumDurations(Tail(d))

(* C1: when a wrapped call of a selected stage s returns normally - whatever *)
(* its work did, invoking other wrapped stages included - the ledger holds   *)
(* exactly one entry keyed s, with a non-negative duration, and the call     *)
(* returned what the work function returned.                                 *)
C1_SelectedStageLedgerAndResult ==
    (ret.valid /\ ret.kind = "return" /\ ret.stage_name \in stages_to_run) =>
        /\ Count(DictKeys(durations), ret.stage_name) = 1
        /\ DictGet(durations, ret.stage_name) >= 0
        /\ ret.value = ret.work.value

(* C2: a wrapped call of a stage s that is not in stages_to_run never        *)
(* invokes the work function, leaves a ledger entry keyed s and returns the  *)
(* skip_result of its wrapper.                                               *)
C2_SkippedStage ==
    /\ \A i \in 1..Len(stack) :
          stack[i].stage_name \notin stages_to_run =>
              /\ stack[i].pc = "end"
              /\ stack[i].work = NoWork
              /\ ~Contains(stack[i].events, "work")
    /\ (ret.valid /\ ret.stage_name \notin stages_to_run) =>
          /\ ret.kind = "return"
          /\ ret.work = NoWork
          /\ ~Contains(ret.events, "work")
          /\ DictHas(durations, ret.stage_name)
          /\ ret.value = ret.skip_result
          /\ ret.skip_result \in SkipResults

C2_Witness ==
    /\ ret.valid
    /\ ret.stage_name \notin stages_to_run
    /\ ret.kind = "return"
    /\ ret.value = "SKIPPED"
    /\ \E w \in wrappers : w.stage_name = ret.stage_name /\ w.skip_result = "True"

(* C3: whatever error the work function of a selected stage raises, the      *)
(* ledger has an entry for the stage when the error leaves the wrapper, and  *)
(* the error that leaves is the error the work raised.                       *)
C3_ErrorKeepsLedgerAndIdentity ==
    (ret.valid /\ ret.work.kind = "raise") =>
        /\ DictHas(durations, ret.stage_name)
        /\ ret.kind = "raise"
        /\ ret.err = ret.work.err

(* C4: every wrapper invocation is Running until it ends as exactly one of   *)
(* Completed, Skipped or Failed, and has then done the end-of-stage          *)
(* bookkeeping exactly once.                                                 *)
C4_BookkeepingExactlyOnce ==
    /\ \A i \in 1..Len(stack) :
          /\ stack[i].pc \in {"work", "end", "except"}
          /\ Count(stack[i].events, "duration") = 0
    /\ ret.valid =>
          /\ Count(ret.events, "duration") = 1
          /\ \/ ret.kind = "return" /\ ret.work.kind = "return"
             \/ ret.kind = "return" /\ ret.work.kind = "none"
                                    /\ Contains(ret.events, "skip")
             \/ ret.kind = "raise" /\ ret.work.kind = "raise"

(* C8: when stages are invoked one after another, the report has exactly one *)
(* row per stage invoked, in the order of (first) invocation.                *)
C8_ReportRowsInInvocationOrder ==
    report.valid => [i \in 1..Len(report.rows) |-> report.rows[i][1]] = invoked

(* The elapsed time the report's footer shows. *)
C9_FooterElapsed == now - start_time

(* C9: with a non-decreasing clock, the time elapsed since construction (the *)
(* footer total) is at least the sum of the durations in the ledger, in      *)
(* every state of a constructed instance.                                    *)
C9_TotalCoversDurations ==
    /\ phase # "load" => C9_FooterElapsed >= SumDurations(durations)
    /\ report.valid =>
          report.footer = <<"Total", TimedeltaStr(C9_FooterElapsed)>>

C9_Witness ==
    /\ Len(durations) = 2
    /\ \A i \in 1..2 : durations[i].duration >= 1
    /\ \E i \in 1..Len(stack) : stack[i].pc = "work"
    /\ Len(stack) = 2

----------------------------------------------------------------------------
(* Claims about the registry.                                              *)

(* The names of a history, each at the place of its first occurrence. *)
FirstOccurrences(h) ==
    LET firsts == {i \in 1..Len(h) : \A j \in 1..(i - 1) : h[j].name # h[i].name}
        RECURSIVE Pick(_)
        Pick(i) == IF i > Len(h) THEN <<>>
                   ELSE IF i \in firsts THEN <<h[i].name>> \o Pick(i + 1)
                   ELSE Pick(i + 1)
    IN  Pick(1)

(* C5: the registry is the sequence of the distinct names registered with    *)
(* success, in the order of their first registration.                        *)
C5_RegistryIsFirstOccurrences ==
    classAttrs["DriverScript"] = FirstOccurrences(declared)

C5_Witness ==
    /\ Len(declared) = 3
    /\ declared[1].name = declared[3].name
    /\ declared[1].name # declared[2].name
    /\ Len(classAttrs["DriverScript"]) = 2

Occurs(sub, s) ==
    \E i \in 1..(Len(s) - Len(sub) + 1) : SubSeq(s, i, i + Len(sub) - 1) = sub

C7_RegistryPerSubtype ==
    \A c1 \in Subclasses : \A c2 \in Subclasses \ {c1} :
        \A i \in 1..Len(declared) :
            (/\ declared[i].cls = c1
             /\ \A j \in 1..Len(declared) :
                    declared[j].name = declared[i].name => declared[j].cls = c1)
            => ~Contains(self_stages(c2), declared[i].name)

----------------------------------------------------------------------------
(* Claims about the command formatter.                                     *)

(* C10: in the loop over the tokens after the program name, the current      *)
(* token and the next one go onto one line, a single space between them, if  *)
(* and only if the current token starts with "--", a next token exists and   *)
(* the next token does not start with "-"; otherwise the current token goes  *)
(* alone onto its line. The tokens tool, --name, value, --verbose give the   *)
(* lines tool, "--name value", --verbose.                                    *)
C10_PairingRule ==
    /\ [](  (fpc = "done" /\ command.text = CmdExample) =>
               lines = <<TokTool, TokName \o <<" ">> \o TokValue, TokVerbose>>)
    /\ [][ (fpc = "loop" /\ args # <<>>) =>
              LET cur == args[1]
                  pair == /\ startswith(cur, <<"-", "-">>)
                          /\ Len(args) >= 2
                          /\ ~startswith(args[2], <<"-">>)
              IN  IF pair
                  THEN /\ args' = SubSeq(args, 3, Len(args))
                       /\ Len(lines') = Len(lines) + 1
                       /\ SubSeq(lines', 1, Len(lines)) = lines
                       /\ \/ lines'[Len(lines')] = cur \o <<" ">> \o args[2]
                          \/ /\ \E i \in 1..Len(args[2]) : args[2][i] \in Whitespace
                             /\ startswith(lines'[Len(lines')], cur \o <<" ", "'">>)
                  ELSE /\ args' = Tail(args)
                       /\ lines' = Append(lines, cur) ]_vars

C10_Witness ==
    /\ fpc = "done"
    /\ command.text = CmdExample
    /\ lines = <<TokTool, TokName \o <<" ">> \o TokValue, TokVerbose>>
    /\ output = Concat(<<TokTool, LineSeparator(command.indent),
                         TokName, <<" ">>, TokValue, LineSeparator(command.indent),
                         TokVerbose>>)

(* The tokens of the command being formatted. *)
CommandTokens == shlex_split(command.text).tokens

(* C11: for a command none of whose tokens starts with "--", the output has  *)
(* one line per token, each line is that token, in the order of the tokens.  *)
C11_NoLongFlagOneLinePerToken ==
    (/\ fpc \in {"loop", "done"}
     /\ \A i \in 1..Len(CommandTokens) : ~startswith(CommandTokens[i], <<"-", "-">>))
    => /\ lines \o args = CommandTokens
       /\ fpc = "done" =>
             /\ lines = CommandTokens
             /\ output = str_join(LineSeparator(command.indent), CommandTokens)

C11_Witness ==
    /\ fpc = "done"
    /\ CommandTokens = <<TokTool, TokShort, TokValue>>
    /\ lines = <<TokTool, TokShort, TokValue>>

(* C12: a value paired with a long flag is written in one pair of single     *)
(* quotes around its whole text, unchanged inside, if and only if it holds   *)
(* at least one whitespace character (space, tab or newline, any number of   *)
(* them); otherwise it is written unchanged.                                 *)
C12_QuotingRule ==
    [][ (fpc = "loop" /\ args # <<>> /\ Len(args') = Len(args) - 2) =>
           LET value == args[2]
               quoted == IF \E i \in 1..Len(value) : value[i] \in Whitespace
                         THEN <<"'">> \o value \o <<"'">>
                         ELSE value
           IN  lines'[Len(lines')] = args[1] \o <<" ">> \o quoted ]_vars

TokPath == <<"-","-","p","a","t","h">>
LinePathQuoted == TokPath \o <<" ","'","/","a"," ","b","/","c","'">>

(* C13 as stated: formatting the command tool --path /a b/c, as written,     *)
(* gives an output whose value line reads --path '/a b/c'.                   *)
C13_UnquotedValueLine ==
    (fpc = "done" /\ command.text = CmdUnquotedSpace) => Contains(lines, LinePathQuoted)

(* C13 as amended: the command tool --path '/a b/c', its value quoted, gives *)
(* the value line --path '/a b/c'; the command tool --path /a b/c splits     *)
(* into four tokens and gives the lines tool, --path /a, b/c.                *)
C13_QuotedValueLine ==
    /\ (fpc = "done" /\ command.text = CmdQuotedSpace) =>
          lines = <<TokTool, LinePathQuoted>>
    /\ (fpc = "done" /\ command.text = CmdUnquotedSpace) =>
          lines = <<TokTool, TokPath \o <<" ","/","a">>, <<"b","/","c">> >>

C13_Witness ==
    /\ fpc = "done"
    /\ command.text = CmdQuotedSpace
    /\ lines[2] = LinePathQuoted

(* C14: when an invocation has written its ledger entry, the ledger holds,  *)
(* under the invocation's own stage name, the end time minus the start     *)
(* time taken at the beginning of that same invocation; stages invoked by  *)
(* the work function in between change nothing of it.                      *)
C14_EntryIsOwnNameAndDuration ==
    [][ (ret'.valid /\ Contains(ret'.events, "duration")) =>
           /\ DictHas(durations', Top.stage_name)
           /\ DictGet(durations', Top.stage_name) = now - Top.begun ]_vars

(* C15: when an invocation ends whose stage name already has a ledger entry *)
(* (the name was used before, by this or another wrapped function), the    *)
(* ledger still has one entry of that name, at the position it had, its    *)
(* value is the duration of the invocation that ends, and the wrapper      *)
(* raises no error of its own.                                             *)
C15_ReusedNameOverwritesInPlace ==
    [][ (ret'.valid /\ DictHas(durations, Top.stage_name)) =>
           /\ Count(DictKeys(durations'), Top.stage_name) = 1
           /\ DictKeys(durations') = DictKeys(durations)
           /\ DictGet(durations', Top.stage_name) = now - Top.begun
           /\ ret'.kind = "raise" => ret'.err = ret'.work.err ]_vars

(* C16: the reporter's events of an invocation are the heading, then the   *)
(* skip notice if and only if the stage is not selected, and last the      *)
(* duration line; the work function runs between the heading and the       *)
(* duration line, and only for a selected stage.                           *)
C16_ReporterEventOrder ==
    /\ \A i \in 1..Len(stack) :
          stack[i].events = IF stack[i].stage_name \in stages_to_run
                            THEN <<"heading", "work">>
                            ELSE <<"heading", "skip">>
    /\ ret.valid =>
          ret.events = IF ret.stage_name \in stages_to_run
                       THEN <<"heading", "work", "duration">>
                       ELSE <<"heading", "skip", "duration">>

----------------------------------------------------------------------------
(* Claims about the argument parser.                                       *)

(* C17 as stated: whenever help is generated through the instance's        *)
(* parser, the allowed stage values are the contents of the registry at    *)
(* that moment, stages registered after the first access included.         *)
C17_HelpChoicesAreCurrentRegistry ==
    help.valid => help.choices = self_stages("SubA")

(* C17 as amended: the allowed stage values are the contents of the        *)
(* registry at the first access to the instance's parser; they never       *)
(* change afterwards, every help text shows them, and they are the first   *)
(* names of the registry of the moment.                                    *)
C17_HelpChoicesAreRegistryAtFirstAccess ==
    /\ [](_lazy_parser.valid =>
            /\ Len(_lazy_parser.choices) <= Len(self_stages("SubA"))
            /\ _lazy_parser.choices =
                  SubSeq(self_stages("SubA"), 1, Len(_lazy_parser.choices)))
    /\ [](help.valid => _lazy_parser.valid /\ help.choices = _lazy_parser.choices)
    /\ [][ /\ _lazy_parser.valid => _lazy_parser' = _lazy_parser
           /\ (~_lazy_parser.valid /\ _lazy_parser'.valid) =>
                 _lazy_parser'.choices = self_stages("SubA") ]_vars

C17_Witness ==
    /\ help.valid
    /\ help.choices = <<StageBuild>>
    /\ self_stages("SubA") = <<StageBuild, StageTest>>

(* The lines ls hold the tokens toks, in order, one or two to a line, a    *)
(* line of two being a token that begins with two dashes, a space and a    *)
(* token that does not begin with a dash (in the quotes _quote_arg adds).  *)
RECURSIVE LinesHoldTokens(_, _)
LinesHoldTokens(ls, toks) ==
    IF ls = <<>> THEN toks = <<>>
    ELSE /\ toks # <<>>
         /\ \/ /\ Head(ls) = toks[1]
               /\ LinesHoldTokens(Tail(ls), Tail(toks))
            \/ /\ Len(toks) >= 2
               /\ startswith(toks[1], <<"-", "-">>)
               /\ ~startswith(toks[2], <<"-">>)
               /\ Head(ls) = toks[1] \o <<" ">> \o _quote_arg(toks[2])
               /\ LinesHoldTokens(Tail(ls), Tail(Tail(toks)))

(* C18: for every command of at least one token the formatter ends, each   *)
(* step of its loop consumes one or two tokens, and the tokens are         *)
(* conserved: the first line is the program name alone and the lines hold  *)
(* the consumed tokens in order, one or two to a line, nothing dropped,    *)
(* duplicated or reordered; a line of two is a token beginning with two    *)
(* dashes followed by a token not beginning with a dash.                   *)
C18_TerminatesAndConservesTokens ==
    /\ [](fpc \in {"loop", "done"} =>
            LET consumed == Len(CommandTokens) - Len(args)
            IN  /\ consumed >= 1
                /\ args = SubSeq(CommandTokens, consumed + 1, Len(CommandTokens))
                /\ Head(lines) = CommandTokens[1]
                /\ LinesHoldTokens(Tail(lines), SubSeq(CommandTokens, 2, consumed))
                /\ fpc = "done" => args = <<>>)
    /\ [][ (fpc = "loop" /\ args # <<>>) => Len(args) - Len(args') \in {1, 2} ]_vars
    /\ (fpc = "loop" ~> fpc = "done")

C18_Witness ==
    /\ fpc = "done"
    /\ CommandTokens = <<TokTool, TokName, TokSpaced>>
    /\ lines = <<TokTool, TokName \o <<" ", "'">> \o TokSpaced \o <<"'">> >>

(* C19: every key of the ledger is a name of the stage registry, the value *)
(* current_stage holds before any stage has begun is never a key, and the  *)
(* ledger is empty until a wrapped stage ends: it is empty while no stage  *)
(* has been invoked and changes only in the step that ends an invocation.  *)
C19_LedgerKeysAreRegisteredStages ==
    /\ [](/\ \A i \in 1..Len(durations) :
                /\ Contains(self_stages("SubA"), durations[i].stage)
                /\ durations[i].stage # CurrentStageNotSet
          /\ invoked = <<>> => durations = <<>>)
    /\ [][ durations' # durations =>
              /\ stack # <<>>
              /\ stack' = Pop
              /\ ret'.valid
              /\ ret'.stage_name = Top.stage_name ]_vars

C19_Witness ==
    /\ Len(durations) = 2
    /\ ret.valid
    /\ stack # <<>>

====
